---------------------------- MODULE Spec2Model ----------------------------
(***************************************************************************)
(* A model of calcium_converter.py: the region segmenter (get_raw_data and *)
(* the helpers it calls), the output writer's flattening of a region's     *)
(* segments, and the metrics engine (calculate_peak, calculate_base,       *)
(* calculate_area, calculate_delta).                                       *)
(*                                                                         *)
(* Python values are modelled as follows.                                  *)
(*   - A cell value is a record [t, v]: t = "num" (int or float, v the     *)
(*     number), t = "str" (text) or t = "None" (empty cell).               *)
(*   - Ratios are fixed-point numbers in thousandths (1000 stands for      *)
(*     1.0); concentrations are integers (see                              *)
(*     ratio_to_calcium_concentration).  Floating-point rounding is not    *)
(*     modelled.                                                           *)
(*   - A list is a sequence; Python's 0-based index i is At(list, i).      *)
(*   - An exception is a value of err other than "none"; it ends the run   *)
(*     (nothing in the program catches the exceptions modelled here).      *)
(***************************************************************************)
EXTENDS Integers, Sequences, FiniteSets, TLC

(***************************************************************************)
(* Bounds of the model.                                                    *)
(***************************************************************************)
\* insheet.max_row of the input grids: data rows are 2..MaxRow.
MaxRow == 5
\* Greatest number of region ("Ratio") columns of the input grids.
MaxRegions == 2
\* Greatest length of treatment_data and of anterior_wash_data drawn for the
\* metrics engine.
MaxLen == 2
\* Greatest length of prior_wash_data drawn for the metrics engine.
MaxPrior == 3

(***************************************************************************)
(* Program constants.                                                      *)
(***************************************************************************)
PEAK_HIGHEST_VALUE == 1
PEAK_AVERAGE_OF_THREE == 2
VALID_PEAK_SELECTIONS == {PEAK_HIGHEST_VALUE, PEAK_AVERAGE_OF_THREE}
HEADER_ROW == 1
START_DATA_ROW == 2
DEFAULT_DT == 6
NUM_CONSECUTIVE_VALUES_BEFORE_DONE == 15

(***************************************************************************)
(* Python values.                                                          *)
(***************************************************************************)
None == [t |-> "None", v |-> 0]
Num(n) == [t |-> "num", v |-> n]
Str(s) == [t |-> "str", v |-> s]
IsNumber(x) == x.t = "num"

\* list[i] with Python's 0-based index.
At(list, i) == list[i + 1]

Min(a, b) == IF a <= b THEN a ELSE b
Max(a, b) == IF a >= b THEN a ELSE b

TimeValuePair(time, value) == [time |-> time, value |-> value]

LabelIndexPair(label, index) ==
    [cls |-> "LabelIndexPair", label |-> label, index |-> index]

\* A plain Python tuple (a, b), which has no attribute "label" and whose
\* attribute "index" is the built-in method tuple.index.
PyTuple(a, b) == [cls |-> "tuple", label |-> a, index |-> b]

\* Whether reading attribute .label of x succeeds (else AttributeError).
HasLabelAttr(x) == x.cls = "LabelIndexPair"
\* Whether attribute .index of x is a number (else it is a bound method).
IndexIsNumber(x) == x.cls = "LabelIndexPair"

is_valid_treatment(potential_treatment) ==
    /\ "Standard Bath" # potential_treatment
    /\ "STD" # potential_treatment

\* A header is [word, suffix]: the text word followed by the characters of
\* suffix, e.g. "Ratio 1" is [word |-> "Ratio", suffix |-> <<" ", "1">>].
\* 'Ratio' in header
is_valid_ratio_data_header(potential_header) ==
    potential_header.word = "Ratio"

(***************************************************************************)
(* The input grid (openpyxl Worksheet).  insheet is a record               *)
(*   [header  : the header row, one header per column (1-indexed),         *)
(*    cells   : [row -> [column -> cell value]] for the data rows,         *)
(*    max_row, max_column].                                                *)
(***************************************************************************)
Cell(insheet, row, col) == insheet.cells[row][col]

\* 146 * (25813.79 / 1674.68) * ((ratio - 0.132) / (6.274 - ratio)), with the
\* ratio in thousandths and the quotient 25813.79 / 1674.68 in hundredths:
\* the result is the concentration rounded down to an integer.  The result is
\* [err, val]: err = "TypeError" when ratio is text (str - float),
\* "ZeroDivisionError" when ratio is 6.274, and val = None when ratio is None.
ratio_to_calcium_concentration(ratio) ==
    IF ratio.t = "None" THEN [err |-> "none", val |-> None]
    ELSE IF ratio.t = "str" THEN [err |-> "TypeError", val |-> None]
    ELSE IF 6274 - ratio.v = 0 THEN [err |-> "ZeroDivisionError", val |-> None]
    ELSE [err |-> "none",
          val |-> Num((146 * ((2581379 * 100) \div 167468) * (ratio.v - 132))
                        \div (100 * (6274 - ratio.v)))]

isdigit(c) == c \in {"0", "1", "2", "3", "4", "5", "6", "7", "8", "9"}

DigitValue(c) ==
    CASE c = "0" -> 0 [] c = "1" -> 1 [] c = "2" -> 2 [] c = "3" -> 3
      [] c = "4" -> 4 [] c = "5" -> 5 [] c = "6" -> 6 [] c = "7" -> 7
      [] c = "8" -> 8 [] c = "9" -> 9

\* int(int_str) for a sequence of digit characters.
RECURSIVE ParseInt(_)
ParseInt(int_str) ==
    IF int_str = << >> THEN 0
    ELSE 10 * ParseInt(SubSeq(int_str, 1, Len(int_str) - 1))
            + DigitValue(int_str[Len(int_str)])

\* The loop of find_number from character k on, with the digits gathered so far.
RECURSIVE FindNumberLoop(_, _, _, _)
FindNumberLoop(chars, k, int_found, int_str) ==
    IF k > Len(chars) THEN int_str
    ELSE IF int_found /\ ~isdigit(chars[k]) THEN int_str
    ELSE IF isdigit(chars[k])
         THEN FindNumberLoop(chars, k + 1, TRUE, Append(int_str, chars[k]))
         ELSE FindNumberLoop(chars, k + 1, int_found, int_str)

\* The first integer in the label, -1 when there is none.  The word of a
\* header holds no digit, so the scan is over its suffix.
find_number(label) ==
    LET int_str == FindNumberLoop(label.suffix, 1, FALSE, << >>)
    IN  IF Len(int_str) = 0 THEN -1 ELSE ParseInt(int_str)

generate_region_label(old_label, region_idx, run_label) ==
    LET number == find_number(old_label)
    IN  IF number = -1 THEN run_label \o ToString(region_idx)
        ELSE run_label \o ToString(number)

\* search_for_data_bounds: the time column, and the first and last column of
\* the span of "Ratio" columns.  0 stands for None (no such column).
search_for_data_bounds(insheet) ==
    LET cols == 1..insheet.max_column
        timeCols == {c \in cols : insheet.header[c].word = "Time"}
        ratioCols == {c \in cols : is_valid_ratio_data_header(insheet.header[c])}
        first(S) == IF S = {} THEN 0 ELSE CHOOSE c \in S : \A d \in S : c <= d
        start == first(ratioCols)
        after == {c \in cols : /\ start # 0
                               /\ c > start
                               /\ ~is_valid_ratio_data_header(insheet.header[c])}
    IN  [start_of_data_row |-> START_DATA_ROW,
         time_column_idx   |-> first(timeCols),
         start_region_idx  |-> start,
         end_region_idx    |-> IF after = {} THEN insheet.max_column
                               ELSE first(after) - 1]

\* '/60' in value, for the label texts of the model.
Contains60(value) == value = "5/60"

\* The rows of the label column from row on, as LabelIndexPairs.
RECURSIVE LabelsFrom(_, _, _)
LabelsFrom(insheet, col, row) ==
    IF row > insheet.max_row THEN << >>
    ELSE LET item == Cell(insheet, row, col)
         IN  IF item.t # "None" /\ ~Contains60(item.v)
             THEN <<LabelIndexPair(item.v, row)>> \o LabelsFrom(insheet, col, row + 1)
             ELSE LabelsFrom(insheet, col, row + 1)

\* search_for_treatment_labels: the (label, row) pairs of the last column
\* whose header contains "Labels", in row order.
search_for_treatment_labels(insheet) ==
    LET labelCols == {c \in 1..insheet.max_column : insheet.header[c].word = "Labels"}
        col == CHOOSE c \in labelCols : \A d \in labelCols : d <= c
    IN  LabelsFrom(insheet, col, HEADER_ROW + 1)

(***************************************************************************)
(* Segments.  A TreatmentData's prior_wash_data is a reference to a list   *)
(* object, not a copy: 0 stands for None, and k > 0 for the std_bath_data  *)
(* list of the k-th segment of the same region's segment list.             *)
(***************************************************************************)
StandardBathData(std_bath_data) ==
    [cls |-> "StandardBathData", std_bath_data |-> std_bath_data]

TreatmentData(treatment_name, prior_wash_data, treatment_data, anterior_wash_data) ==
    [cls                |-> "TreatmentData",
     treatment_name     |-> treatment_name,
     prior_wash_data    |-> prior_wash_data,
     treatment_data     |-> treatment_data,
     anterior_wash_data |-> anterior_wash_data]

\* A dict is a sequence of entries [key, value] in insertion order.
DictHas(dict, key) == \E i \in 1..Len(dict) : dict[i].key = key
DictGet(dict, key) == dict[CHOOSE i \in 1..Len(dict) : dict[i].key = key].value
\* dict[key] = value: an existing key keeps its place and loses its old value.
DictSet(dict, key, value) ==
    IF DictHas(dict, key)
    THEN [i \in 1..Len(dict) |->
            IF dict[i].key = key THEN [key |-> key, value |-> value] ELSE dict[i]]
    ELSE Append(dict, [key |-> key, value |-> value])

\* The sample append_values makes of one row once the ratio is converted.
RowSample(ratio_value, time_value) ==
    IF IsNumber(ratio_value) /\ IsNumber(time_value)
    THEN TimeValuePair(time_value.v, ratio_value.v)
    ELSE TimeValuePair(0, 0)

\* append_values(list, start, end) of get_raw_data for column region: the
\* rows start .. end - 1 in order.  The result is [err, list, diag]: the
\* exception that ended the loop ("none" when it ran to its end), the list,
\* and the rows for which 'Invalid time/ratio values' was printed.
RECURSIVE append_values(_, _, _, _, _, _, _)
append_values(insheet, region, time_column_idx, list, diag, start, end) ==
    IF end - start <= 0 THEN [err |-> "none", list |-> list, diag |-> diag]
    ELSE LET ratio == ratio_to_calcium_concentration(Cell(insheet, start, region))
             time_value == Cell(insheet, start, time_column_idx)
             valid == IsNumber(ratio.val) /\ IsNumber(time_value)
         IN  IF ratio.err # "none"
             THEN [err |-> ratio.err, list |-> list, diag |-> diag]
             ELSE append_values(insheet, region, time_column_idx,
                                Append(list, RowSample(ratio.val, time_value)),
                                IF valid THEN diag ELSE Append(diag, start),
                                start + 1, end)

\* The search stopped at the first StandardBathData of the list rather than
\* run to the last one.
PriorStdData_First(segments) ==
    LET baths == {k \in 1..Len(segments) : segments[k].cls = "StandardBathData"}
    IN  IF baths = {} THEN 0 ELSE CHOOSE k \in baths : \A m \in baths : k <= m

\* "Use last prior STD data": the list of the last StandardBathData of the
\* region's segment list, as a reference (0: None).
PriorStdData(segments) ==
    LET baths == {k \in 1..Len(segments) : segments[k].cls = "StandardBathData"}
    IN  IF baths = {} THEN 0 ELSE CHOOSE k \in baths : \A m \in baths : m <= k

\* The assertion weakened to j >= 0, which the first label passes.
FirstSegmentIsBath_Weak(j) == j >= 0

\* assert j > 0, 'STD must be first treatment, ...'
FirstSegmentIsBath(j) == j > 0

\* One pass of the loop over treatment_labels in get_raw_data (the body for
\* index j), for column region whose segment list so far is segments.  The
\* result is [err, seg, diag]: the exception raised ("none": the segment seg
\* is appended to the region's list) and the diagnostics printed.
SegmentForLabel(insheet, region, time_column_idx, treatment_labels, j, segments) ==
    LET label_index_pair == At(treatment_labels, j)
        n == Len(treatment_labels)
        fail(e, d) == [err |-> e, seg |-> StandardBathData(<< >>), diag |-> d]
        treatment_end_idx ==
            IF j + 1 < n THEN At(treatment_labels, j + 1).index
            ELSE insheet.max_row + 1
    IN
    IF j + 1 < n /\ ~IndexIsNumber(At(treatment_labels, j + 1))
    THEN fail("TypeError", << >>)
    ELSE IF ~HasLabelAttr(label_index_pair) THEN fail("AttributeError", << >>)
    ELSE IF is_valid_treatment(label_index_pair.label)
    THEN LET td == append_values(insheet, region, time_column_idx, << >>, << >>,
                                  label_index_pair.index, treatment_end_idx)
             prior_std_data == PriorStdData(segments)
             anterior_std_treatment_end ==
                 IF j + 2 < n THEN At(treatment_labels, j + 2).index
                 ELSE insheet.max_row + 1
             aw == append_values(insheet, region, time_column_idx, << >>, td.diag,
                                 treatment_end_idx + 1, anterior_std_treatment_end)
         IN  IF td.err # "none" THEN fail(td.err, td.diag)
             ELSE IF ~FirstSegmentIsBath(j) THEN fail("AssertionError", td.diag)
             ELSE IF ~(j + 1 < n) THEN fail("IndexError", td.diag)
             ELSE IF ~is_valid_treatment(At(treatment_labels, j + 1).label)
             THEN IF aw.err # "none" THEN fail(aw.err, aw.diag)
                  ELSE [err  |-> "none",
                        seg  |-> TreatmentData(label_index_pair.label, prior_std_data,
                                               td.list, aw.list),
                        diag |-> aw.diag]
             ELSE [err  |-> "none",
                   seg  |-> TreatmentData(label_index_pair.label, prior_std_data,
                                          td.list, << >>),
                   diag |-> td.diag]
    ELSE LET bd == append_values(insheet, region, time_column_idx, << >>, << >>,
                                  label_index_pair.index, treatment_end_idx)
         IN  IF bd.err # "none" THEN fail(bd.err, bd.diag)
             ELSE [err |-> "none", seg |-> StandardBathData(bd.list), diag |-> bd.diag]

\* The samples write_data_to_outsheet writes for one region, in order: the
\* std_bath_data of a bath segment, the treatment_data of a treatment.
RECURSIVE WrittenSamples(_)
WrittenSamples(concentrations) ==
    IF concentrations = << >> THEN << >>
    ELSE LET data == Head(concentrations)
         IN  (IF data.cls = "StandardBathData" THEN data.std_bath_data
              ELSE data.treatment_data)
             \o WrittenSamples(Tail(concentrations))

(***************************************************************************)
(* The metrics engine.  Sample values and times are integers here; a mean  *)
(* is the exact rational [num, den] (den > 0), and a standard deviation is *)
(* kept as its square, the rational [sq_num, sq_den], so that every        *)
(* comparison the code makes is decided exactly.  The functions take a     *)
(* TreatmentData whose prior_wash_data is the referenced list itself, as   *)
(* [t |-> "list", v |-> the samples], or the value None (see Resolve).     *)
(***************************************************************************)
Rat(num, den) == [num |-> num, den |-> den]

RECURSIVE SumSeq(_)
SumSeq(values) ==
    IF values = << >> THEN 0 ELSE Head(values) + SumSeq(Tail(values))

Values(samples) == [k \in 1..Len(samples) |-> samples[k].value]

\* statistics.mean(values), for a non-empty list.
mean(values) == Rat(SumSeq(values), Len(values))

\* statistics.stdev(values), for a list of two or more values: the square of
\* the sample standard deviation, (n * sum(x^2) - sum(x)^2) / (n * (n - 1)).
stdev(values) ==
    LET n == Len(values)
        squares == [k \in 1..n |-> values[k] * values[k]]
    IN  [sq_num |-> n * SumSeq(squares) - SumSeq(values) * SumSeq(values),
         sq_den |-> n * (n - 1)]

\* sorted(data, reverse=True, key=value): a stable sort, so that among equal
\* values the earlier element of data comes first.
RECURSIVE SortedByValueDesc(_)
SortedByValueDesc(data) ==
    IF data = << >> THEN << >>
    ELSE LET top == CHOOSE k \in 1..Len(data) :
                      /\ \A m \in 1..Len(data) : data[m].value <= data[k].value
                      /\ \A m \in 1..(k - 1) : data[m].value < data[k].value
             rest == [m \in 1..(Len(data) - 1) |->
                        IF m < top THEN data[m] ELSE data[m + 1]]
         IN  <<data[top]>> \o SortedByValueDesc(rest)

\* The value of i after the loop over anterior_wash_data in calculate_peak:
\* i counts the samples visited, the one that breaks the loop included.
RECURSIVE PeakLoop(_, _, _)
PeakLoop(anterior_wash_data, limit, i) ==
    IF i >= Len(anterior_wash_data) THEN i
    ELSE IF At(anterior_wash_data, i).time > limit THEN i + 1
    ELSE PeakLoop(anterior_wash_data, limit, i + 1)

\* data_to_search of calculate_peak before it is sorted.
PeakPool(treatment_data, post_std_time_to_search) ==
    LET td == treatment_data.treatment_data
        aw == treatment_data.anterior_wash_data
        end_treatment_value_time == td[Len(td)].time
        i == PeakLoop(aw, end_treatment_value_time + post_std_time_to_search, 0)
    IN  td \o SubSeq(aw, 1, Min(Len(aw), i))

\* calculate_peak.  The result is [err, peak, peak_time]: peak is a rational;
\* peak_time is Num(time), or the record [t |-> "TimeValuePair"] when the
\* function returns a TimeValuePair object in its place.
calculate_peak(treatment_data, peak_type, post_std_time_to_search) ==
    IF treatment_data.treatment_data = << >>
    THEN [err |-> "IndexError", peak |-> Rat(0, 1), peak_time |-> None]
    ELSE LET data_to_search ==
                 SortedByValueDesc(PeakPool(treatment_data, post_std_time_to_search))
             top2 == SubSeq(data_to_search, 1, Min(2, Len(data_to_search)))
         IN  IF peak_type = PEAK_HIGHEST_VALUE
             THEN [err       |-> "none",
                   peak      |-> Rat(data_to_search[1].value, 1),
                   peak_time |-> Num(data_to_search[1].time)]
             ELSE IF Len(top2) >= 2
             \* max() of two TimeValuePair objects compares them with ">"
             THEN [err |-> "TypeError", peak |-> mean(Values(top2)), peak_time |-> None]
             \* max() of a single object returns the object
             ELSE [err       |-> "none",
                   peak      |-> mean(Values(top2)),
                   peak_time |-> [t |-> "TimeValuePair", v |-> top2[1].time]]

\* list[-base:]
SliceLast(list, base) ==
    LET n == Len(list)
        start == IF -base < 0 THEN Max(n - base, 0) ELSE Min(-base, n)
    IN  SubSeq(list, start + 1, n)

\* calculate_base.  The result is [err, base_values, base, std].
calculate_base(treatment_data, base) ==
    LET nothing == [err |-> "TypeError", base_values |-> << >>,
                    base |-> Rat(0, 1), std |-> [sq_num |-> 0, sq_den |-> 1]]
    IN
    \* None[-base:]
    IF treatment_data.prior_wash_data.t = "None" THEN nothing
    ELSE LET base_time_value_pairs == SliceLast(treatment_data.prior_wash_data.v, base)
             base_values == Values(base_time_value_pairs)
         IN  IF Len(base_values) < 2
             THEN [nothing EXCEPT !.err = "StatisticsError",
                                  !.base_values = base_values]
             ELSE [err         |-> "none",
                   base_values |-> base_values,
                   base        |-> mean(base_values),
                   std         |-> stdev(base_values)]

\* value > base + base_std, for base_std >= 0 given by its square.
AboveBase(value, base, base_std) ==
    LET d == value * base.den - base.num
    IN  /\ d > 0
        /\ d * d * base_std.sq_den > base_std.sq_num * base.den * base.den

\* The loop of calculate_area from sample k on.  auc is kept as the integer
\* auc * base.den.  The result is [err, auc].
RECURSIVE AreaLoop(_, _, _, _, _, _, _, _)
AreaLoop(values_to_consider, k, base, base_std, base_peak_time, auc, consec_values_at_base, previous_time) ==
    IF k > Len(values_to_consider) THEN [err |-> "none", auc |-> Rat(auc, base.den)]
    ELSE LET value == values_to_consider[k]
             dt == IF previous_time = None THEN DEFAULT_DT
                   ELSE value.time - previous_time.v
         IN  IF AboveBase(value.value, base, base_std)
             THEN AreaLoop(values_to_consider, k + 1, base, base_std, base_peak_time,
                           auc + (value.value * base.den - base.num) * dt,
                           consec_values_at_base, Num(value.time))
             \* value.time > base_peak_time with a TimeValuePair for a time
             ELSE IF ~IsNumber(base_peak_time)
             THEN [err |-> "TypeError", auc |-> Rat(auc, base.den)]
             ELSE IF value.time > base_peak_time.v
             THEN IF consec_values_at_base + 1 >= NUM_CONSECUTIVE_VALUES_BEFORE_DONE
                  THEN [err |-> "none", auc |-> Rat(auc, base.den)]
                  ELSE AreaLoop(values_to_consider, k + 1, base, base_std,
                                base_peak_time, auc, consec_values_at_base + 1,
                                Num(value.time))
             ELSE AreaLoop(values_to_consider, k + 1, base, base_std, base_peak_time,
                           auc, consec_values_at_base, Num(value.time))

calculate_area(treatment_data, base, base_std, base_peak_time) ==
    AreaLoop(treatment_data.treatment_data \o treatment_data.anterior_wash_data,
             1, base, base_std, base_peak_time, 0, 0, None)

\* peak - base
calculate_delta(peak, base) ==
    Rat(peak.num * base.den - base.num * peak.den, peak.den * base.den)

\* The TreatmentData at place k of a region's segment list, with its
\* prior_wash_data reference followed to the list it refers to.
Resolve(segments, k) ==
    LET td == segments[k]
    IN  [td EXCEPT !.prior_wash_data =
            IF td.prior_wash_data = 0 THEN None
            ELSE [t |-> "list", v |-> segments[td.prior_wash_data].std_bath_data]]

(***************************************************************************)
(* The input grids of the model.                                           *)
(***************************************************************************)
\* The texts of the cells of the "Labels" column.
LabelTexts == {"STD", "Standard Bath", "CCK"}
\* The header texts of the region columns, after the word "Ratio":
\* "Ratio", "Ratio 1" and "Ratio 10b2".
RegionSuffixes == {<< >>, <<" ", "1">>, <<" ", "1", "0", "b", "2">>}
Rows == (HEADER_ROW + 1)..MaxRow

\* The grid with columns Time, Ratio ... (one per element of suffixes),
\* Labels; times 0, 6, 12, ... and a different ratio in every cell; labels as
\* given; and the cell (bad.row, bad.col) replaced by bad.value when
\* bad.row # 0.
Sheet(suffixes, labels, bad) ==
    LET nreg == Len(suffixes)
        ncol == nreg + 2
    IN  [header |-> [c \in 1..ncol |->
                        IF c = 1 THEN [word |-> "Time", suffix |-> << >>]
                        ELSE IF c = ncol THEN [word |-> "Labels", suffix |-> << >>]
                        ELSE [word |-> "Ratio", suffix |-> suffixes[c - 1]]],
         cells |-> [r \in Rows |-> [c \in 1..ncol |->
                        IF bad.row = r /\ bad.col = c THEN bad.value
                        ELSE IF c = 1 THEN Num(6 * (r - 2))
                        ELSE IF c = ncol THEN labels[r]
                        ELSE Num(1000 + 500 * (r - 2) + 100 * (c - 2))]],
         max_row |-> MaxRow,
         max_column |-> ncol]

NoBadCell == [row |-> 0, col |-> 0, value |-> None]

\* The headers "Ratio 1", "Ratio 2", ... of nreg region columns.
PlainSuffixes(nreg) ==
    [k \in 1..nreg |-> <<" ", <<"1", "2", "3", "4", "5", "6", "7", "8", "9">>[k]>>]

\* The grids with 1 .. MaxRegions region columns, any labels in the rows of
\* the "Labels" column, and at most one irregularity: either one time or
\* ratio cell that is empty or holds text, or region headers other than
\* "Ratio 1", "Ratio 2", ...
IsInputSheet(sheet) ==
    \E nreg \in 1..MaxRegions :
      \E suffixes \in [1..nreg -> RegionSuffixes] \cup {PlainSuffixes(nreg)},
         labels \in [Rows -> {None} \cup {Str(s) : s \in LabelTexts}],
         bad \in {NoBadCell} \cup
                 [row : Rows, col : 1..(nreg + 1), value : {None, Str("n/a")}] :
        /\ bad = NoBadCell \/ suffixes = PlainSuffixes(nreg)
        /\ sheet = Sheet(suffixes, labels, bad)

(***************************************************************************)
(* The program's state.                                                    *)
(***************************************************************************)
VARIABLES
    insheet,           \* the input grid
    args,              \* run_label, base_elements, peak_type, post_std_time_to_search
    pc,                \* where the run is
    err,               \* the exception that ended the run ("none": none)
    treatment_labels,  \* get_raw_data: the label list
    ratio_data,        \* get_raw_data: region label -> segment list (a dict)
    region,            \* get_raw_data: the column of the region loop
    region_label,      \* get_raw_data: the label of that region
    j,                 \* get_raw_data: the index of the label loop
    diagnostics,       \* the rows reported as 'Invalid time/ratio values'
    outsheet,          \* the sample columns written, one per region
    cursor,            \* convert_calcium_file: the treatment being computed
    calc               \* convert_calcium_file: peak, peak_time, base, std, area, delta

vars == <<insheet, args, pc, err, treatment_labels, ratio_data, region,
          region_label, j, diagnostics, outsheet, cursor, calc>>

NoCursor == [r |-> 0, k |-> 0]
NoCalc == [peak |-> Rat(0, 1), peak_time |-> None, base_values |-> << >>,
           base |-> Rat(0, 1), std |-> [sq_num |-> 0, sq_den |-> 1],
           area |-> Rat(0, 1), delta |-> Rat(0, 1)]
NoOutput == [labels |-> << >>, columns |-> << >>, calculations |-> << >>]

\* The defaults of parse_arg: -base 10, -peak 1, --post-std-time-to-search 5*60.
DefaultArgs ==
    [run_label |-> "A", base_elements |-> 10, peak_type |-> PEAK_HIGHEST_VALUE,
     post_std_time_to_search |-> 5 * 60]

\* The state as convert_calcium_file is about to call get_raw_data.
Init ==
    /\ IsInputSheet(insheet)
    /\ args = DefaultArgs
    /\ pc = "start"
    /\ err = "none"
    /\ treatment_labels = << >>
    /\ ratio_data = << >>
    /\ region = 0
    /\ region_label = ""
    /\ j = 0
    /\ diagnostics = << >>
    /\ outsheet = NoOutput
    /\ cursor = NoCursor
    /\ calc = NoCalc

\* An exception leaves the program: nothing catches it.
Raise(e) ==
    /\ pc' = "error"
    /\ err' = e

\* get_raw_data up to its loop over the regions.
Start ==
    /\ pc = "start"
    /\ treatment_labels' = search_for_treatment_labels(insheet)
    /\ ratio_data' = << >>
    /\ region' = search_for_data_bounds(insheet).start_region_idx
    /\ pc' = "region"
    /\ UNCHANGED <<insheet, args, err, region_label, j, diagnostics, outsheet,
                   cursor, calc>>

\* The head of the loop over the regions: the region's label, its empty
\* segment list, and the "STD" label for the rows before the first label.
BeginRegion ==
    /\ pc = "region"
    /\ region <= search_for_data_bounds(insheet).end_region_idx
    /\ LET bounds == search_for_data_bounds(insheet)
           old_sheet_label == insheet.header[region]
           label == generate_region_label(old_sheet_label,
                                          region - bounds.start_region_idx,
                                          args.run_label)
       IN  /\ region_label' = label
           /\ ratio_data' = DictSet(ratio_data, label, << >>)
           /\ IF treatment_labels = << >>
              \* treatment_labels[0] of an empty list
              THEN Raise("IndexError") /\ UNCHANGED <<treatment_labels, j>>
              \* tuple.index > start_of_data_row: a method compared with an int
              ELSE IF ~IndexIsNumber(At(treatment_labels, 0))
              THEN Raise("TypeError") /\ UNCHANGED <<treatment_labels, j>>
              ELSE /\ treatment_labels' =
                        IF At(treatment_labels, 0).index > bounds.start_of_data_row
                        THEN <<PyTuple("STD", bounds.start_of_data_row)>>
                                \o treatment_labels
                        ELSE treatment_labels
                   /\ j' = 0
                   /\ pc' = "label"
                   /\ err' = err
    /\ UNCHANGED <<insheet, args, region, diagnostics, outsheet, cursor, calc>>

\* One pass of the loop over the labels, for the label at index j; after the
\* last label the loop over the regions moves on to the next column.
SegmentLabel ==
    /\ pc = "label"
    /\ j < Len(treatment_labels)
    /\ LET bounds == search_for_data_bounds(insheet)
           segments == DictGet(ratio_data, region_label)
           r == SegmentForLabel(insheet, region, bounds.time_column_idx,
                                treatment_labels, j, segments)
       IN  /\ diagnostics' = diagnostics \o r.diag
           /\ IF r.err # "none"
              THEN Raise(r.err) /\ UNCHANGED <<ratio_data, region, j>>
              ELSE /\ ratio_data' = DictSet(ratio_data, region_label,
                                            Append(segments, r.seg))
                   /\ err' = err
                   /\ IF j + 1 < Len(treatment_labels)
                      THEN j' = j + 1 /\ pc' = "label" /\ region' = region
                      ELSE j' = j + 1 /\ pc' = "region" /\ region' = region + 1
    /\ UNCHANGED <<insheet, args, treatment_labels, region_label, outsheet,
                   cursor, calc>>

\* get_raw_data returns (ratio_data, treatment_labels).
Return ==
    /\ pc = "region"
    /\ region > search_for_data_bounds(insheet).end_region_idx
    /\ pc' = "returned"
    /\ UNCHANGED <<insheet, args, err, treatment_labels, ratio_data, region,
                   region_label, j, diagnostics, outsheet, cursor, calc>>

\* The first TreatmentData after place c in the order of convert_calcium_file's
\* loops (regions in dict order, segments in list order); NoCursor: none.
NextTreatment(data, c) ==
    LET later == {d \in [r : 1..Len(data), k : 1..MaxRow] :
                    /\ d.k <= Len(data[d.r].value)
                    /\ data[d.r].value[d.k].cls = "TreatmentData"
                    /\ (d.r > c.r \/ (d.r = c.r /\ d.k > c.k))}
    IN  IF later = {} THEN NoCursor
        ELSE CHOOSE d \in later :
               \A e \in later : d.r < e.r \/ (d.r = e.r /\ d.k <= e.k)

\* write_treatment_labels and write_data_to_outsheet.
WriteOutput ==
    /\ pc = "returned"
    /\ outsheet' = [outsheet EXCEPT
          !.labels = [i \in 1..Len(treatment_labels) |->
                        <<treatment_labels[i].index, treatment_labels[i].label>>],
          !.columns = [i \in 1..Len(ratio_data) |->
                        [region_name |-> ratio_data[i].key,
                         samples |-> WrittenSamples(ratio_data[i].value)]]]
    /\ cursor' = NextTreatment(ratio_data, NoCursor)
    /\ pc' = IF cursor' = NoCursor THEN "success" ELSE "peak"
    /\ UNCHANGED <<insheet, args, err, treatment_labels, ratio_data, region,
                   region_label, j, diagnostics, calc>>

\* The treatment_data of convert_calcium_file's loop.
CurrentTreatment == Resolve(ratio_data[cursor.r].value, cursor.k)

CalculatePeak ==
    /\ pc = "peak"
    /\ LET r == calculate_peak(CurrentTreatment, args.peak_type,
                               args.post_std_time_to_search)
       IN  IF r.err # "none"
           THEN Raise(r.err) /\ calc' = NoCalc
           ELSE /\ calc' = [NoCalc EXCEPT !.peak = r.peak, !.peak_time = r.peak_time]
                /\ pc' = "base"
                /\ err' = err
    /\ UNCHANGED <<insheet, args, treatment_labels, ratio_data, region,
                   region_label, j, diagnostics, outsheet, cursor>>

CalculateBase ==
    /\ pc = "base"
    /\ LET r == calculate_base(CurrentTreatment, args.base_elements)
       IN  /\ calc' = [calc EXCEPT !.base_values = r.base_values,
                                   !.base = r.base, !.std = r.std]
           /\ IF r.err # "none" THEN Raise(r.err)
              ELSE pc' = "area" /\ err' = err
    /\ UNCHANGED <<insheet, args, treatment_labels, ratio_data, region,
                   region_label, j, diagnostics, outsheet, cursor>>

CalculateArea ==
    /\ pc = "area"
    /\ LET r == calculate_area(CurrentTreatment, calc.base, calc.std, calc.peak_time)
       IN  /\ calc' = [calc EXCEPT !.area = r.auc]
           /\ IF r.err # "none" THEN Raise(r.err)
              ELSE pc' = "delta" /\ err' = err
    /\ UNCHANGED <<insheet, args, treatment_labels, ratio_data, region,
                   region_label, j, diagnostics, outsheet, cursor>>

\* calculate_delta, write_calculations_to_outsheet, and the move to the next
\* TreatmentData (the file is saved after the last one).
CalculateDelta ==
    /\ pc = "delta"
    /\ calc' = [calc EXCEPT !.delta = calculate_delta(calc.peak, calc.base)]
    /\ outsheet' = [outsheet EXCEPT !.calculations =
          Append(@, [region_name |-> ratio_data[cursor.r].key,
                     peak |-> calc.peak, base |-> calc.base, std |-> calc.std,
                     area |-> calc.area, delta |-> calc'.delta])]
    /\ cursor' = NextTreatment(ratio_data, cursor)
    /\ pc' = IF cursor' = NoCursor THEN "success" ELSE "peak"
    /\ UNCHANGED <<insheet, args, err, treatment_labels, ratio_data, region,
                   region_label, j, diagnostics>>

Segmentation == Start \/ BeginRegion \/ SegmentLabel \/ Return

Metrics == CalculatePeak \/ CalculateBase \/ CalculateArea \/ CalculateDelta

Next == Segmentation \/ WriteOutput \/ Metrics

\* The whole program, on the input grids of the model.
Spec == Init /\ [][Next]_vars

(***************************************************************************)
(* The metrics engine on its own: convert_calcium_file's loop body on one  *)
(* TreatmentData of a region "A1" whose segment list is the bath the       *)
(* treatment refers to, followed by the treatment.                         *)
(***************************************************************************)
\* The samples drawn: the placeholder (0, 0) and three measured samples.
TreatmentSamples ==
    {TimeValuePair(0, 0), TimeValuePair(6, 1), TimeValuePair(12, 0),
     TimeValuePair(12, 2)}
PriorSamples == {TimeValuePair(0, -1), TimeValuePair(6, 1)}

SeqsUpTo(S, lo, hi) == UNION {[1..n -> S] : n \in lo..hi}

\* The configurations drawn: both peak modes, a search window of 0 s and the
\* default one, and -base values on both sides of 0 (argparse's type=int
\* accepts every integer).
MetricsArgs ==
    [run_label : {"A"},
     base_elements : {-1, 0, 1, 2, 10},
     peak_type : VALID_PEAK_SELECTIONS,
     post_std_time_to_search : {0, 5 * 60}]

NoSheet == [header |-> << >>, cells |-> << >>, max_row |-> HEADER_ROW, max_column |-> 0]

InitMetrics ==
    /\ insheet = NoSheet
    /\ args \in MetricsArgs
    /\ pc = "peak"
    /\ err = "none"
    /\ treatment_labels = << >>
    /\ \E prior \in SeqsUpTo(PriorSamples, 1, MaxPrior),
          td \in SeqsUpTo(TreatmentSamples, 1, MaxLen),
          aw \in SeqsUpTo(TreatmentSamples, 0, MaxLen) :
         ratio_data = <<[key   |-> "A1",
                         value |-> <<StandardBathData(prior),
                                     TreatmentData("CCK", 1, td, aw)>>]>>
    /\ region = 0
    /\ region_label = "A1"
    /\ j = 0
    /\ diagnostics = << >>
    /\ outsheet = NoOutput
    /\ cursor = [r |-> 1, k |-> 2]
    /\ calc = NoCalc

SpecMetrics == InitMetrics /\ [][Metrics]_vars

(***************************************************************************)
(* Definitions the properties below share.                                 *)
(***************************************************************************)
\* The label list as search_for_treatment_labels finds it in the grid.
SheetLabels == search_for_treatment_labels(insheet)
TimeColumn == search_for_data_bounds(insheet).time_column_idx
RegionColumns ==
    search_for_data_bounds(insheet).start_region_idx ..
        search_for_data_bounds(insheet).end_region_idx
LabelOfColumn(c) ==
    generate_region_label(insheet.header[c],
                          c - search_for_data_bounds(insheet).start_region_idx,
                          args.run_label)

\* get_raw_data has raised an exception / has returned.
SegmentationFailed == pc = "error" /\ cursor = NoCursor /\ outsheet = NoOutput
SegmentationReturned ==
    pc \in {"returned", "peak", "base", "area", "delta", "success"}
        \/ (pc = "error" /\ ~SegmentationFailed)

\* The region columns whose segment list has been started.
StartedColumns ==
    {c \in RegionColumns : c < region \/ (c = region /\ pc \in {"label", "error"})}
\* The column whose segments the dict holds under key: the last one started
\* with that label.
ColumnOfKey(key) ==
    CHOOSE c \in StartedColumns :
        /\ LabelOfColumn(c) = key
        /\ \A d \in StartedColumns : LabelOfColumn(d) = key => d <= c

\* The sample a data row of a region column stands for: its time and its
\* converted ratio, or the placeholder (0, 0) when either cell holds no number.
SampleOfRow(row, col) ==
    LET ratio == Cell(insheet, row, col)
        time == Cell(insheet, row, TimeColumn)
    IN  IF IsNumber(ratio) /\ IsNumber(time)
        THEN TimeValuePair(time.v, ratio_to_calcium_concentration(ratio).val.v)
        ELSE TimeValuePair(0, 0)

\* The samples of the rows first .. last of a region column, in row order.
SamplesOfRows(first, last, col) ==
    [p \in 1..(last - first + 1) |-> SampleOfRow(first + p - 1, col)]

(***************************************************************************)
(* C1.  For every valid input grid (a Time column, region columns, a       *)
(* Labels column with at least one label; a grid whose first label is a    *)
(* treatment is refused by design and is not counted as valid),            *)
(* get_raw_data completes, and for every region the samples of its         *)
(* segments in list order (std_bath_data of a bath, treatment_data of a    *)
(* treatment) are exactly one sample per data row from row 2 to the last   *)
(* row, in row order.                                                      *)
(***************************************************************************)
C1_ValidGrid ==
    /\ SheetLabels # << >>
    /\ ~is_valid_treatment(SheetLabels[1].label)

C1_EveryRowOnce ==
    C1_ValidGrid =>
        /\ ~SegmentationFailed
        /\ SegmentationReturned =>
              \A c \in RegionColumns :
                  /\ DictHas(ratio_data, LabelOfColumn(c))
                  /\ WrittenSamples(DictGet(ratio_data, LabelOfColumn(c)))
                        = SamplesOfRows(START_DATA_ROW, insheet.max_row, c)

(***************************************************************************)
(* C2.  A row whose ratio cell or time cell holds text or is empty does    *)
(* not end the run: the segment collected over a row range holds, for      *)
(* every row of the range and at the row's own position, the placeholder   *)
(* (0, 0) when a cell of the row holds no number and the row's sample      *)
(* otherwise, and every such row is reported in a diagnostic.  (In         *)
(* get_raw_data a TypeError comes from a ratio cell that holds text.)      *)
(***************************************************************************)
C2_BadCellRecovered ==
    /\ ~(SegmentationFailed /\ err = "TypeError")
    /\ (pc \in {"label", "region"} /\ j > 0) =>
          LET segments == DictGet(ratio_data, region_label)
              col == IF pc = "region" THEN region - 1 ELSE region
              seg == segments[Len(segments)]
              first == At(treatment_labels, j - 1).index
              last == IF j < Len(treatment_labels)
                      THEN At(treatment_labels, j).index - 1
                      ELSE insheet.max_row
              samples == IF seg.cls = "StandardBathData" THEN seg.std_bath_data
                         ELSE seg.treatment_data
          IN  /\ samples = SamplesOfRows(first, last, col)
              /\ \A row \in first..last :
                    (~IsNumber(Cell(insheet, row, col))
                        \/ ~IsNumber(Cell(insheet, row, TimeColumn)))
                    => \E d \in 1..Len(diagnostics) : diagnostics[d] = row

(***************************************************************************)
(* C3.  When the first label of the grid is a treatment name in the first  *)
(* data row (so that no bath, labelled or not, precedes it), get_raw_data  *)
(* ends with an exception: no segment is ever appended, the step for the   *)
(* first label raises, and the function never returns.  In every run, a    *)
(* TreatmentData in a region's segment list refers, as its                 *)
(* prior_wash_data, to the list of a StandardBathData earlier in the same  *)
(* list, so the metrics never see a treatment without a prior bath.        *)
(***************************************************************************)
C3_TreatmentFirst ==
    /\ SheetLabels # << >>
    /\ is_valid_treatment(SheetLabels[1].label)
    /\ SheetLabels[1].index = START_DATA_ROW

C3_TreatmentNeedsBath ==
    /\ C3_TreatmentFirst =>
          /\ ~SegmentationReturned
          /\ \A i \in 1..Len(ratio_data) : ratio_data[i].value = << >>
          /\ pc = "label" =>
                SegmentForLabel(insheet, region, TimeColumn, treatment_labels, j,
                                DictGet(ratio_data, region_label)).err # "none"
    /\ \A i \in 1..Len(ratio_data) : \A k \in 1..Len(ratio_data[i].value) :
          LET segments == ratio_data[i].value
          IN  segments[k].cls = "TreatmentData" =>
                /\ segments[k].prior_wash_data \in 1..(k - 1)
                /\ segments[segments[k].prior_wash_data].cls = "StandardBathData"
    /\ pc \in {"peak", "base", "area", "delta"} =>
          CurrentTreatment.prior_wash_data.t = "list"

\* The first label is a treatment in row 2 and the assertion has ended the run.
C3_Witness ==
    /\ C3_TreatmentFirst
    /\ SegmentationFailed
    /\ err = "AssertionError"

(***************************************************************************)
(* Definitions the properties of the metrics share.                        *)
(***************************************************************************)
\* calculate_peak / calculate_base / calculate_area has returned for the
\* current treatment (pc is the next call of the loop body).
PeakReturned == pc \in {"base", "area", "delta"}
BaseReturned == pc \in {"area", "delta"}
AreaReturned == pc = "delta"

MaxOf(S) == CHOOSE x \in S : \A y \in S : y <= x
Range(seq) == {seq[k] : k \in 1..Len(seq)}

\* The candidate pool as the claim states it: every treatment_data sample
\* and every anterior_wash_data sample whose time does not exceed the time of
\* the last treatment_data sample plus the search window.
StatedPool(td, window) ==
    LET limit == td.treatment_data[Len(td.treatment_data)].time + window
    IN  td.treatment_data
            \o SelectSeq(td.anterior_wash_data, LAMBDA x : x.time <= limit)

(***************************************************************************)
(* C4.  With peak mode 'highest', calculate_peak searches exactly the      *)
(* stated pool (no anterior-wash sample later than the last treatment      *)
(* sample's time plus the search window is in it) and returns the value    *)
(* and the time of a sample of that pool with the greatest value.          *)
(***************************************************************************)
C4_HighestOfStatedPool ==
    (PeakReturned /\ args.peak_type = PEAK_HIGHEST_VALUE) =>
        LET pool == StatedPool(CurrentTreatment, args.post_std_time_to_search)
        IN  /\ PeakPool(CurrentTreatment, args.post_std_time_to_search) = pool
            /\ calc.peak = Rat(MaxOf(Range(Values(pool))), 1)
            /\ \E x \in Range(pool) :
                  /\ x.value = MaxOf(Range(Values(pool)))
                  /\ calc.peak_time = Num(x.time)

(***************************************************************************)
(* C5.  With peak mode 'average-of-three' (2), calculate_peak returns the  *)
(* mean of the values of the two highest-valued candidates and, as the     *)
(* peak time, the later of those two candidates' times: a number.          *)
(***************************************************************************)
C5_AverageModeReturnsTime ==
    (args.peak_type = PEAK_AVERAGE_OF_THREE /\ pc # "peak") =>
        LET sorted == SortedByValueDesc(
                          PeakPool(CurrentTreatment, args.post_std_time_to_search))
            top2 == SubSeq(sorted, 1, Min(2, Len(sorted)))
        IN  /\ ~(pc = "error" /\ calc = NoCalc)
            /\ calc.peak = mean(Values(top2))
            /\ calc.peak_time = Num(MaxOf({top2[k].time : k \in 1..Len(top2)}))

(***************************************************************************)
(* C6.  For every integer base_elements, calculate_base computes the mean  *)
(* and the standard deviation over exactly the last                        *)
(* min(base_elements, n) samples of the n samples of prior_wash_data, and  *)
(* over the whole series only when n <= base_elements.                     *)
(***************************************************************************)
C6_BaseOverLastSamples ==
    BaseReturned =>
        LET prior == CurrentTreatment.prior_wash_data.v
            n == Len(prior)
            m == Min(args.base_elements, n)
        IN  /\ Len(calc.base_values) = m
            /\ calc.base_values = Values(SubSeq(prior, n - m + 1, n))
            /\ Len(calc.base_values) = n => n <= args.base_elements

(***************************************************************************)
(* C7.  If every sample of treatment_data followed by anterior_wash_data   *)
(* has a value >= base, then calculate_area returns a value >= 0 (the      *)
(* placeholder sample (0, 0) included among the samples).                  *)
(***************************************************************************)
C7_AreaNotNegative ==
    AreaReturned =>
        LET td == CurrentTreatment
            samples == td.treatment_data \o td.anterior_wash_data
        IN  (\A k \in 1..Len(samples) :
                samples[k].value * calc.base.den >= calc.base.num)
            => calc.area.num >= 0

(***************************************************************************)
(* C8.  Region display labels are unique: two different region columns     *)
(* never receive the same label, so the mapping holds one entry per        *)
(* region column whose segment list has been started, and no region's      *)
(* segment list is replaced by another region's.                           *)
(***************************************************************************)
C8_RegionLabelsUnique ==
    /\ \A c, d \in StartedColumns : c # d => LabelOfColumn(c) # LabelOfColumn(d)
    /\ Len(ratio_data) = Cardinality(StartedColumns)

(***************************************************************************)
(* C9.  When the first label's row is after the first data row (row 2),    *)
(* the label list becomes ('STD', 2) followed by the labels of the grid    *)
(* (the label is added once, whatever the number of regions), its segment  *)
(* is built like any other (reading the label of the synthesized entry     *)
(* does not fail), and every region's segment list starts with a           *)
(* StandardBathData holding the samples of the rows from row 2 to the row  *)
(* before the original first label.                                        *)
(***************************************************************************)
C9_UnlabelledStart ==
    /\ SheetLabels # << >>
    /\ SheetLabels[1].index > START_DATA_ROW

C9_LeadingBathSynthesized ==
    C9_UnlabelledStart =>
        /\ ~(SegmentationFailed /\ err = "AttributeError")
        /\ StartedColumns # {} =>
              /\ Len(treatment_labels) = Len(SheetLabels) + 1
              /\ At(treatment_labels, 0).label = "STD"
              /\ At(treatment_labels, 0).index = START_DATA_ROW
              /\ Tail(treatment_labels) = SheetLabels
        /\ \A i \in 1..Len(ratio_data) :
              ratio_data[i].value # << >> =>
                  ratio_data[i].value[1] =
                      StandardBathData(SamplesOfRows(START_DATA_ROW,
                                                     SheetLabels[1].index - 1,
                                                     ColumnOfKey(ratio_data[i].key)))

(***************************************************************************)
(* C10.  A TreatmentData whose next label is a bath marker holds, as       *)
(* anterior_wash_data, one sample for each row from the next label's row   *)
(* (the first row of the following bath) to the row before the label two   *)
(* ahead, or to the grid's last row when there is no label two ahead.      *)
(* The k-th segment of a list is the one of the label at index k - 1.      *)
(***************************************************************************)
C10_AnteriorWashFromBathStart ==
    \A i \in 1..Len(ratio_data) : \A k \in 1..Len(ratio_data[i].value) :
        LET seg == ratio_data[i].value[k]
            n == Len(treatment_labels)
        IN  (/\ seg.cls = "TreatmentData"
             /\ k < n
             /\ ~is_valid_treatment(At(treatment_labels, k).label))
            => seg.anterior_wash_data =
                  SamplesOfRows(At(treatment_labels, k).index,
                                IF k + 1 < n THEN At(treatment_labels, k + 1).index - 1
                                ELSE insheet.max_row,
                                ColumnOfKey(ratio_data[i].key))

(***************************************************************************)
(* C11.  A TreatmentData whose label is not immediately followed by a bath *)
(* marker (it is followed by another treatment label, or it is the final   *)
(* label of the list) is built and appended: looking for the label after   *)
(* it does not fail, its anterior_wash_data is empty, and its              *)
(* treatment_data holds the samples of the rows from its label's row to    *)
(* the row before the next label, or to the grid's last row.               *)
(***************************************************************************)
\* The label at index k is a treatment that no bath marker follows.
C11_NoBathFollows(k) ==
    LET n == Len(treatment_labels)
    IN  /\ k < n
        /\ HasLabelAttr(At(treatment_labels, k))
        /\ is_valid_treatment(At(treatment_labels, k).label)
        /\ (k + 1 < n => is_valid_treatment(At(treatment_labels, k + 1).label))

C11_NoBathFollowsBuilt ==
    /\ ~(SegmentationFailed /\ err = "IndexError" /\ C11_NoBathFollows(j))
    /\ \A i \in 1..Len(ratio_data) : \A k \in 1..Len(ratio_data[i].value) :
          LET seg == ratio_data[i].value[k]
              n == Len(treatment_labels)
          IN  (seg.cls = "TreatmentData" /\ C11_NoBathFollows(k - 1))
              => /\ seg.anterior_wash_data = << >>
                 /\ seg.treatment_data =
                      SamplesOfRows(At(treatment_labels, k - 1).index,
                                    IF k < n THEN At(treatment_labels, k).index - 1
                                    ELSE insheet.max_row,
                                    ColumnOfKey(ratio_data[i].key))

(***************************************************************************)
(* C12.  Every TreatmentData's prior_wash_data is the sample sequence      *)
(* itself (a reference, not a copy) of the latest StandardBathData that    *)
(* precedes it in the same region's segment list, so consecutive           *)
(* treatments with no bath between them refer to the same sequence; and    *)
(* once get_raw_data has returned, no step of the output writer or of      *)
(* calculate_peak, calculate_base, calculate_area changes any segment's    *)
(* sample sequence.                                                        *)
(***************************************************************************)
C12_PriorIsLatestBath ==
    \A i \in 1..Len(ratio_data) : \A k \in 1..Len(ratio_data[i].value) :
        LET segments == ratio_data[i].value
            baths == {m \in 1..(k - 1) : segments[m].cls = "StandardBathData"}
        IN  segments[k].cls = "TreatmentData"
            => /\ baths # {}
               /\ segments[k].prior_wash_data \in baths
               /\ \A m \in baths : m <= segments[k].prior_wash_data

C12_SharedPriorBathUnchanged ==
    [][/\ C12_PriorIsLatestBath'
       /\ SegmentationReturned => ratio_data' = ratio_data]_vars

\* Two consecutive treatments refer to the same bath sequence, the writer has
\* written the region's samples and calculate_peak has run on a treatment.
C12_Witness ==
    /\ pc = "base"
    /\ outsheet.columns # << >>
    /\ \E i \in 1..Len(ratio_data) : \E k \in 1..Len(ratio_data[i].value) - 1 :
          LET segments == ratio_data[i].value
          IN  /\ segments[k].cls = "TreatmentData"
              /\ segments[k + 1].cls = "TreatmentData"
              /\ segments[k].prior_wash_data = segments[k + 1].prior_wash_data
              /\ segments[k].prior_wash_data > 0

=============================================================================
